---- MODULE Spec2Model ----
(***************************************************************************)
(* Model of extract_document.py: the AGM data extractor.                   *)
(*                                                                         *)
(* A text is a sequence of one-character strings.  The regular expressions *)
(* of the source are kept as data (a sequence of items) and again by a       *)
(* backtracking matcher with Python's priorities: greedy repetition, the   *)
(* alternatives of a group from left to right, leftmost match for search.  *)
(* A record is a function from the source's dictionary keys to texts.      *)
(***************************************************************************)
EXTENDS Integers, Sequences, FiniteSets, TLC

VARIABLES uploaded_file, pc, pdf_text, proposal_blocks, proposals,
          director_blocks, directors, ppc, dpc, p_i, d_i, notices,
          excel_data, download, again, prev_proposals, prev_directors

vars == <<uploaded_file, pc, pdf_text, proposal_blocks, proposals,
          director_blocks, directors, ppc, dpc, p_i, d_i, notices,
          excel_data, download, again, prev_proposals, prev_directors>>

(***************************************************************************)
(* Characters                                                              *)
(***************************************************************************)
Digits == {"0", "1", "2", "3", "4", "5", "6", "7", "8", "9"}

DigitValue == [d \in Digits |->
                 CASE d = "0" -> 0 [] d = "1" -> 1 [] d = "2" -> 2
                   [] d = "3" -> 3 [] d = "4" -> 4 [] d = "5" -> 5
                   [] d = "6" -> 6 [] d = "7" -> 7 [] d = "8" -> 8
                   [] d = "9" -> 9]

\* the characters \s matches and str.strip() removes (space, \t, \n, \r, \f)
Whitespace == {" ", "\t", "\n", "\r", "\f"}

UpperToLower == [A |-> "a", B |-> "b", C |-> "c", D |-> "d", E |-> "e",
                 F |-> "f", G |-> "g", H |-> "h", I |-> "i", J |-> "j",
                 K |-> "k", L |-> "l", M |-> "m", N |-> "n", O |-> "o",
                 P |-> "p", Q |-> "q", R |-> "r", S |-> "s", T |-> "t",
                 U |-> "u", V |-> "v", W |-> "w", X |-> "x", Y |-> "y",
                 Z |-> "z"]

Lower(c) == IF c \in DOMAIN UpperToLower THEN UpperToLower[c] ELSE c

(***************************************************************************)
(* The string literals of the source                                       *)
(***************************************************************************)
S_Proposal == <<"P", "r", "o", "p", "o", "s", "a", "l">>
S_Proxy == <<"P", "r", "o", "x", "y">>
S_YearColon == <<"Y", "e", "a", "r", ":">>
S_For == <<"F", "o", "r">>
S_votes == <<"v", "o", "t", "e", "s">>
S_Against == <<"A", "g", "a", "i", "n", "s", "t">>
S_Abstained == <<"A", "b", "s", "t", "a", "i", "n", "e", "d">>
S_Withheld == <<"W", "i", "t", "h", "h", "e", "l", "d">>
S_Broker == <<"B", "r", "o", "k", "e", "r">>
S_Non == <<"N", "o", "n">>
S_Votes == <<"V", "o", "t", "e", "s">>
S_Nil == <<"N", "i", "l">>
S_Dash == <<"-">>
S_Text == <<"T", "e", "x", "t">>
S_Quote == <<"\"">>
S_IndividualColon == <<"I", "n", "d", "i", "v", "i", "d", "u", "a", "l",
  ":">>
S_Director == <<"D", "i", "r", "e", "c", "t", "o", "r">>
S_Zero == <<"0">>
S_2024 == <<"2", "0", "2", "4">>
S_Empty == <<>>
S_ApprovedOpen == <<"A", "p", "p", "r", "o", "v", "e", "d", " ", "(">>
S_ForGt == <<" ", "F", "o", "r", " ", ">", " ">>
S_AgainstClose == <<" ", "A", "g", "a", "i", "n", "s", "t", ")">>

(***************************************************************************)
(* Regular expressions.  A character class is a set with a negation flag;  *)
(* an item is a literal, a repeated class or the capturing group.          *)
(***************************************************************************)
Class(set) == [neg |-> FALSE, set |-> set]
NotClass(set) == [neg |-> TRUE, set |-> set]

InClass(c, cls) == (c \in cls.set) # cls.neg

NoClass == Class({})

Lit(w)      == [t |-> "lit",  w |-> w,    cls |-> NoClass, n |-> 0, alts |-> <<>>]
Star(cls)   == [t |-> "star", w |-> <<>>, cls |-> cls,     n |-> 0, alts |-> <<>>]
Plus(cls)   == [t |-> "plus", w |-> <<>>, cls |-> cls,     n |-> 0, alts |-> <<>>]
Opt(cls)    == [t |-> "opt",  w |-> <<>>, cls |-> cls,     n |-> 0, alts |-> <<>>]
Rep(cls, n) == [t |-> "rep",  w |-> <<>>, cls |-> cls,     n |-> n, alts |-> <<>>]
Group(alts) == [t |-> "grp",  w |-> <<>>, cls |-> NoClass, n |-> 0, alts |-> alts]

Regex(items, ignorecase) == [items |-> items, ic |-> ignorecase]

\* \s, \d, [\d,], [:\-], [-\s], [^\n], [^"]
ClsSpace      == Class(Whitespace)
ClsDigit      == Class(Digits)
ClsDigitComma == Class(Digits \cup {","})
ClsColonDash  == Class({":", "-"})
ClsDashSpace  == Class({"-"} \cup Whitespace)
ClsNotNewline == NotClass({"\n"})
ClsNotQuote   == NotClass({"\""})

NoMatch == [ok |-> FALSE, start |-> 0, end |-> 0, cap |-> <<>>]

\* the least element of a non-empty set of integers
Least(S) == CHOOSE x \in S : \A y \in S : x <= y

\* length of the longest again of characters of cls that starts at s[i]
RunLen(s, i, cls) ==
  LET stops == {j \in i..Len(s) : ~InClass(s[j], cls)}
  IN  IF stops = {} THEN Len(s) + 1 - i ELSE Least(stops) - i

SameChar(a, b, ic) == IF ic THEN Lower(a) = Lower(b) ELSE a = b

LitAt(s, i, w, ic) ==
  /\ i + Len(w) - 1 <= Len(s)
  /\ \A j \in 1..Len(w) : SameChar(s[i + j - 1], w[j], ic)

Min(a, b) == IF a < b THEN a ELSE b

\* the lengths an item may consume at s[i], tried from hi down to lo
\* (hi < lo: the item does not match there)
Lengths(it, s, i, ic) ==
  CASE it.t = "lit"  -> IF LitAt(s, i, it.w, ic)
                          THEN [hi |-> Len(it.w), lo |-> Len(it.w)]
                          ELSE [hi |-> 0, lo |-> 1]
    [] it.t = "star" -> [hi |-> RunLen(s, i, it.cls), lo |-> 0]
    [] it.t = "plus" -> [hi |-> RunLen(s, i, it.cls), lo |-> 1]
    [] it.t = "opt"  -> [hi |-> Min(1, RunLen(s, i, it.cls)), lo |-> 0]
    [] it.t = "rep"  -> IF RunLen(s, i, it.cls) >= it.n
                          THEN [hi |-> it.n, lo |-> it.n]
                          ELSE [hi |-> 0, lo |-> 1]

RECURSIVE MatchFrom(_, _, _, _, _)
RECURSIVE TryLengths(_, _, _, _, _, _, _, _)
RECURSIVE TryAlts(_, _, _, _, _, _)

\* the first way, in the matcher's priority order, to match items k.. of
\* re at s[i]; cap is the text of the group when it has been passed
MatchFrom(re, k, s, i, cap) ==
  IF k > Len(re.items) THEN [ok |-> TRUE, start |-> 0, end |-> i, cap |-> cap]
  ELSE IF re.items[k].t = "grp" THEN TryAlts(re, k, s, i, 1, cap)
  ELSE LET r == Lengths(re.items[k], s, i, re.ic)
       IN  TryLengths(re, k, s, i, r.hi, r.lo, 0, cap)

\* item k (or, with a > 0, alternative a of the group k) consumes n
\* characters, then the rest of re must match; on failure try n - 1
TryLengths(re, k, s, i, n, lo, a, cap) ==
  IF n < lo
    THEN IF a = 0 THEN NoMatch ELSE TryAlts(re, k, s, i, a + 1, cap)
    ELSE LET c == IF a = 0 THEN cap ELSE SubSeq(s, i, i + n - 1)
             r == MatchFrom(re, k + 1, s, i + n, c)
         IN  IF r.ok THEN r ELSE TryLengths(re, k, s, i, n - 1, lo, a, cap)

TryAlts(re, k, s, i, a, cap) ==
  IF a > Len(re.items[k].alts) THEN NoMatch
  ELSE LET r == Lengths(re.items[k].alts[a], s, i, re.ic)
       IN  TryLengths(re, k, s, i, r.hi, r.lo, a, cap)

\* re.match: the pattern matches at the beginning of s
re_match(re, s) == MatchFrom(re, 1, s, 1, <<>>)

\* a match of re can begin at s[j] only with the first character of the
\* literal re begins with
CanStartAt(re, s, j) ==
  re.items[1].t = "lit" =>
    j <= Len(s) /\ SameChar(s[j], re.items[1].w[1], re.ic)

\* the leftmost match of re in s that starts at i or later
SearchFrom(re, s, i) ==
  LET starts == {j \in i..(Len(s) + 1) :
                   CanStartAt(re, s, j) /\ MatchFrom(re, 1, s, j, <<>>).ok}
  IN  IF starts = {} THEN NoMatch
      ELSE [MatchFrom(re, 1, s, Least(starts), <<>>)
              EXCEPT !.start = Least(starts)]

\* re.search
re_search(re, s) == SearchFrom(re, s, 1)

RECURSIVE SplitFrom(_, _, _)
SplitFrom(re, s, pos) ==
  LET m == SearchFrom(re, s, pos)
  IN  IF m.ok
        THEN <<SubSeq(s, pos, m.start - 1)>> \o SplitFrom(re, s, m.end)
        ELSE <<SubSeq(s, pos, Len(s))>>

\* re.split for a pattern without groups that never matches the empty text
re_split(re, s) == SplitFrom(re, s, 1)

(***************************************************************************)
(* The patterns of parse_proposals and parse_directors                     *)
(***************************************************************************)
ProposalMarkerCaseSensitive ==
  Regex(<<Lit(S_Proposal), Plus(ClsSpace), Lit(S_Proxy), Plus(ClsSpace),
          Lit(S_YearColon)>>, FALSE)

\* r'Proposal\s+Proxy\s+Year:' with re.IGNORECASE
ProposalMarker ==
  Regex(<<Lit(S_Proposal), Plus(ClsSpace), Lit(S_Proxy), Plus(ClsSpace),
          Lit(S_YearColon)>>, TRUE)

\* r'\s*(\d{4})'
YearPattern == Regex(<<Star(ClsSpace), Group(<<Rep(ClsDigit, 4)>>)>>, FALSE)

\* the tail r'\s*[:\-]?\s*([\d,]+)' shared by the vote patterns
NumberTail ==
  <<Star(ClsSpace), Opt(ClsColonDash), Star(ClsSpace),
    Group(<<Plus(ClsDigitComma)>>)>>

\* the tail r'\s*[:\-]?\s*([\d,]+|Nil|-)' of the broker patterns
BrokerTail ==
  <<Star(ClsSpace), Opt(ClsColonDash), Star(ClsSpace),
    Group(<<Plus(ClsDigitComma), Lit(S_Nil), Lit(S_Dash)>>)>>

\* r'<word>\s*votes\s*[:\-]?\s*([\d,]+)' with re.IGNORECASE
VotesPattern(word) ==
  Regex(<<Lit(word), Star(ClsSpace), Lit(S_votes)>> \o NumberTail, TRUE)

ForPattern       == VotesPattern(S_For)
AgainstPattern   == VotesPattern(S_Against)
AbstainedPattern == VotesPattern(S_Abstained)
WithheldPattern  == VotesPattern(S_Withheld)

\* r'Broker\s*Non[-\s]*Votes'
BrokerLabel ==
  <<Lit(S_Broker), Star(ClsSpace), Lit(S_Non), Star(ClsDashSpace),
    Lit(S_Votes)>>

\* r'Broker\s*Non[-\s]*Votes\s*[:\-]?\s*([\d,]+|Nil|-)' with re.IGNORECASE
BrokerPattern == Regex(BrokerLabel \o BrokerTail, TRUE)

\* r'Proposal\s*Text\s*[:\-]?\s*"([^"]+)"' with re.IGNORECASE
TextPattern ==
  Regex(<<Lit(S_Proposal), Star(ClsSpace), Lit(S_Text), Star(ClsSpace),
          Opt(ClsColonDash), Star(ClsSpace), Lit(S_Quote),
          Group(<<Plus(ClsNotQuote)>>), Lit(S_Quote)>>, TRUE)

\* r'Individual:' with re.IGNORECASE
DirectorMarker == Regex(<<Lit(S_IndividualColon)>>, TRUE)

\* r'\s*([^\n]+)'
NamePattern == Regex(<<Star(ClsSpace), Group(<<Plus(ClsNotNewline)>>)>>, FALSE)

\* r'Director\s*Votes\s*<word>\s*[:\-]?\s*([\d,]+)' with re.IGNORECASE
DirectorVotesPattern(word) ==
  Regex(<<Lit(S_Director), Star(ClsSpace), Lit(S_Votes), Star(ClsSpace),
          Lit(word)>> \o NumberTail, TRUE)

\* r'Director\s*Votes\s*Broker[-\s]*Non[-\s]*Votes'
DirectorBrokerLabel ==
  <<Lit(S_Director), Star(ClsSpace), Lit(S_Votes), Star(ClsSpace),
    Lit(S_Broker), Star(ClsDashSpace), Lit(S_Non), Star(ClsDashSpace),
    Lit(S_Votes)>>

\* r'Director\s*Votes\s*Broker[-\s]*Non[-\s]*Votes\s*[:\-]?\s*([\d,]+|Nil|-)'
DirectorBrokerPattern == Regex(DirectorBrokerLabel \o BrokerTail, TRUE)

(***************************************************************************)
(* The Python built-ins the parsers use                                    *)
(***************************************************************************)
\* m.group(1) if m else ""
GroupOrEmpty(m) == IF m.ok THEN m.cap ELSE S_Empty

RECURSIVE Replace(_, _)
\* s.replace(c, "")
Replace(s, c) ==
  IF s = <<>> THEN <<>>
  ELSE IF Head(s) = c THEN Replace(Tail(s), c)
  ELSE <<Head(s)>> \o Replace(Tail(s), c)

RECURSIVE DigitsValue(_, _)
DigitsValue(s, acc) ==
  IF s = <<>> THEN acc ELSE DigitsValue(Tail(s), 10 * acc + DigitValue[Head(s)])

\* int(s) for a text without sign or blanks: ValueError unless s is a
\* non-empty again of digits
int(s) ==
  IF s # <<>> /\ \A j \in 1..Len(s) : s[j] \in Digits
    THEN [raised |-> FALSE, value |-> DigitsValue(s, 0)]
    ELSE [raised |-> TRUE, value |-> 0]

\* try: v = int(s.replace(",", "")) if s else 0 / except Exception: v = 0
VotesOrZero(s) ==
  IF s = S_Empty THEN 0
  ELSE LET r == int(Replace(s, ","))
       IN  IF r.raised THEN 0 ELSE r.value

RECURSIVE LStrip(_)
LStrip(s) ==
  IF s # <<>> /\ Head(s) \in Whitespace THEN LStrip(Tail(s)) ELSE s

RECURSIVE RStrip(_)
RStrip(s) ==
  IF s # <<>> /\ s[Len(s)] \in Whitespace
    THEN RStrip(SubSeq(s, 1, Len(s) - 1)) ELSE s

\* s.strip()
Strip(s) == RStrip(LStrip(s))

(***************************************************************************)
(* parse_proposals                                                         *)
(***************************************************************************)
BrokerValueNilOnly(val) == IF val = S_Nil THEN S_Zero ELSE val

\* "0" if val in ["Nil", "-"] else val
BrokerValue(val) == IF val \in {S_Nil, S_Dash} THEN S_Zero ELSE val

BrokerEntryNoElse(key, m) ==
  IF m.ok THEN key :> BrokerValue(m.cap) ELSE <<>>

\* if m_broker: record[key] = ... else: record[key] = ""
BrokerEntry(key, m) ==
  IF m.ok THEN key :> BrokerValue(m.cap) ELSE key :> S_Empty

ProxyYearAnywhere(block) == GroupOrEmpty(re_search(YearPattern, block))

\* m_year.group(1) if m_year else "", m_year matched at the block's start
ProxyYear(block) == GroupOrEmpty(re_match(YearPattern, block))

ResolutionOutcomeOnTie(rawFor, rawAgainst) ==
  IF VotesOrZero(rawFor) >= VotesOrZero(rawAgainst)
    THEN S_ApprovedOpen \o rawFor \o S_ForGt \o rawAgainst \o S_AgainstClose
    ELSE S_Empty

\* the f-string of the approved outcome, or ""
ResolutionOutcome(rawFor, rawAgainst) ==
  IF VotesOrZero(rawFor) > VotesOrZero(rawAgainst)
    THEN S_ApprovedOpen \o rawFor \o S_ForGt \o rawAgainst \o S_AgainstClose
    ELSE S_Empty

\* the body of the loop over the proposal blocks: one dictionary
ProposalRecord(block) ==
  LET p1 == "Proposal Proxy Year" :> ProxyYear(block)
      p2 == p1 @@ ("Vote Results - For" :>
                     GroupOrEmpty(re_search(ForPattern, block)))
      p3 == p2 @@ ("Vote Results - Against" :>
                     GroupOrEmpty(re_search(AgainstPattern, block)))
      p4 == p3 @@ ("Vote Results - Abstained" :>
                     GroupOrEmpty(re_search(AbstainedPattern, block)))
      p5 == p4 @@ ("Vote Results - Withheld" :>
                     GroupOrEmpty(re_search(WithheldPattern, block)))
      p6 == p5 @@ BrokerEntry("Vote Results - Broker Non-Votes",
                              re_search(BrokerPattern, block))
      p7 == p6 @@ ("Proposal Text" :>
                     GroupOrEmpty(re_search(TextPattern, block)))
      p8 == p7 @@ ("Resolution Outcome" :>
                     ResolutionOutcome(p7["Vote Results - For"],
                                       p7["Vote Results - Against"]))
      p9 == p8 @@ ("Mgmt. Proposal Category" :> S_Empty)
  IN  p9 @@ ("Proposal Vote Results Total" :> S_Empty)

\* re.split(...)[1:]
ProposalBlocks(text) == Tail(re_split(ProposalMarker, text))

parse_proposals(text) ==
  LET blocks == ProposalBlocks(text)
  IN  [i \in 1..Len(blocks) |-> ProposalRecord(blocks[i])]

(***************************************************************************)
(* parse_directors                                                         *)
(***************************************************************************)
\* m_name.group(1).strip() if m_name else ""
IndividualName(block) ==
  LET m == re_match(NamePattern, block)
  IN  IF m.ok THEN Strip(m.cap) ELSE S_Empty

DirectorRecord(block) ==
  LET d1 == "Director Election Year" :> S_2024
      d2 == d1 @@ ("Individual" :> IndividualName(block))
      d3 == d2 @@ ("Director Votes For" :>
                     GroupOrEmpty(re_search(DirectorVotesPattern(S_For), block)))
      d4 == d3 @@ ("Director Votes Against" :>
                     GroupOrEmpty(re_search(DirectorVotesPattern(S_Against), block)))
      d5 == d4 @@ ("Director Votes Abstained" :>
                     GroupOrEmpty(re_search(DirectorVotesPattern(S_Abstained), block)))
      d6 == d5 @@ ("Director Votes Withheld" :>
                     GroupOrEmpty(re_search(DirectorVotesPattern(S_Withheld), block)))
  IN  d6 @@ BrokerEntry("Director Votes Broker-Non-Votes",
                        re_search(DirectorBrokerPattern, block))

DirectorBlocksWithHead(text) == re_split(DirectorMarker, text)

\* re.split(...)[1:]
DirectorBlocks(text) == Tail(re_split(DirectorMarker, text))

parse_directors(text) ==
  LET blocks == DirectorBlocks(text)
  IN  [i \in 1..Len(blocks) |-> DirectorRecord(blocks[i])]

(***************************************************************************)
(* The documents: a stream that cannot be opened, or up to MaxPages pages  *)
(* whose extracted text is one of the page texts (PageBlank: a page for    *)
(* which extract_text() gives None or "").                                 *)
(***************************************************************************)
MaxPages == 2

\* ''
PageBlank == <<>>

\* 'Proposal Proxy Year: 2023 blah For votes: 1,000 Against votes: 200 Proposal Text: "Elect auditor"'
PageScenarioA == <<"P", "r", "o", "p", "o", "s", "a", "l", " ", "P", "r",
  "o", "x", "y", " ", "Y", "e", "a", "r", ":", " ", "2", "0", "2", "3",
  " ", "b", "l", "a", "h", " ", "F", "o", "r", " ", "v", "o", "t", "e",
  "s", ":", " ", "1", ",", "0", "0", "0", " ", "A", "g", "a", "i", "n",
  "s", "t", " ", "v", "o", "t", "e", "s", ":", " ", "2", "0", "0", " ",
  "P", "r", "o", "p", "o", "s", "a", "l", " ", "T", "e", "x", "t", ":",
  " ", "\"", "E", "l", "e", "c", "t", " ", "a", "u", "d", "i", "t", "o",
  "r", "\"">>

\* 'AGM PROPOSAL  proxy\tyear: FY 2024 for votes , AGAINST VOTES - 500 Broker Non-Votes: nil INDIVIDUAL: Bo'
PageLooseMarker == <<"A", "G", "M", " ", "P", "R", "O", "P", "O", "S", "A",
  "L", " ", " ", "p", "r", "o", "x", "y", "\t", "y", "e", "a", "r", ":",
  " ", "F", "Y", " ", "2", "0", "2", "4", " ", "f", "o", "r", " ", "v",
  "o", "t", "e", "s", " ", ",", " ", "A", "G", "A", "I", "N", "S", "T",
  " ", "V", "O", "T", "E", "S", " ", "-", " ", "5", "0", "0", " ", "B",
  "r", "o", "k", "e", "r", " ", "N", "o", "n", "-", "V", "o", "t", "e",
  "s", ":", " ", "n", "i", "l", " ", "I", "N", "D", "I", "V", "I", "D",
  "U", "A", "L", ":", " ", "B", "o">>

\* '12345 For votes: 0 Withheld votes: , broker non votes -'
PageZeroFor == <<"1", "2", "3", "4", "5", " ", "F", "o", "r", " ", "v",
  "o", "t", "e", "s", ":", " ", "0", " ", "W", "i", "t", "h", "h", "e",
  "l", "d", " ", "v", "o", "t", "e", "s", ":", " ", ",", " ", "b", "r",
  "o", "k", "e", "r", " ", "n", "o", "n", " ", "v", "o", "t", "e", "s",
  " ", "-">>

\* 'Proposal Proxy Year: 2022 For votes: 0 Proposal Proxy Year:2021 For votes: 7 Against votes: 7 Broker Non-Votes: Nil proposal proxy year: 2020 Abstained votes: 1,5 Broker Non-Votes: 2,000 Proposal Proxy Year:'
PageProposals == <<"P", "r", "o", "p", "o", "s", "a", "l", " ", "P", "r",
  "o", "x", "y", " ", "Y", "e", "a", "r", ":", " ", "2", "0", "2", "2",
  " ", "F", "o", "r", " ", "v", "o", "t", "e", "s", ":", " ", "0", " ",
  "P", "r", "o", "p", "o", "s", "a", "l", " ", "P", "r", "o", "x", "y",
  " ", "Y", "e", "a", "r", ":", "2", "0", "2", "1", " ", "F", "o", "r",
  " ", "v", "o", "t", "e", "s", ":", " ", "7", " ", "A", "g", "a", "i",
  "n", "s", "t", " ", "v", "o", "t", "e", "s", ":", " ", "7", " ", "B",
  "r", "o", "k", "e", "r", " ", "N", "o", "n", "-", "V", "o", "t", "e",
  "s", ":", " ", "N", "i", "l", " ", "p", "r", "o", "p", "o", "s", "a",
  "l", " ", "p", "r", "o", "x", "y", " ", "y", "e", "a", "r", ":", " ",
  "2", "0", "2", "0", " ", "A", "b", "s", "t", "a", "i", "n", "e", "d",
  " ", "v", "o", "t", "e", "s", ":", " ", "1", ",", "5", " ", "B", "r",
  "o", "k", "e", "r", " ", "N", "o", "n", "-", "V", "o", "t", "e", "s",
  ":", " ", "2", ",", "0", "0", "0", " ", "P", "r", "o", "p", "o", "s",
  "a", "l", " ", "P", "r", "o", "x", "y", " ", "Y", "e", "a", "r", ":">>

\* 'Individual: Jane Doe\nDirector Votes For: 900'
PageScenarioE == <<"I", "n", "d", "i", "v", "i", "d", "u", "a", "l", ":",
  " ", "J", "a", "n", "e", " ", "D", "o", "e", "\n", "D", "i", "r", "e",
  "c", "t", "o", "r", " ", "V", "o", "t", "e", "s", " ", "F", "o", "r",
  ":", " ", "9", "0", "0">>

\* 'INDIVIDUAL: John Roe Director Votes Broker Non-Votes - Individual:  Ann Lee \nDirector Votes For: 1,200 Director Votes Against 10 Director Votes Abstained: 2 Director Votes Withheld - 3 Director Votes Broker-Non-Votes: 3,400 individual:'
PageDirectors == <<"I", "N", "D", "I", "V", "I", "D", "U", "A", "L", ":",
  " ", "J", "o", "h", "n", " ", "R", "o", "e", " ", "D", "i", "r", "e",
  "c", "t", "o", "r", " ", "V", "o", "t", "e", "s", " ", "B", "r", "o",
  "k", "e", "r", " ", "N", "o", "n", "-", "V", "o", "t", "e", "s", " ",
  "-", " ", "I", "n", "d", "i", "v", "i", "d", "u", "a", "l", ":", " ",
  " ", "A", "n", "n", " ", "L", "e", "e", " ", "\n", "D", "i", "r", "e",
  "c", "t", "o", "r", " ", "V", "o", "t", "e", "s", " ", "F", "o", "r",
  ":", " ", "1", ",", "2", "0", "0", " ", "D", "i", "r", "e", "c", "t",
  "o", "r", " ", "V", "o", "t", "e", "s", " ", "A", "g", "a", "i", "n",
  "s", "t", " ", "1", "0", " ", "D", "i", "r", "e", "c", "t", "o", "r",
  " ", "V", "o", "t", "e", "s", " ", "A", "b", "s", "t", "a", "i", "n",
  "e", "d", ":", " ", "2", " ", "D", "i", "r", "e", "c", "t", "o", "r",
  " ", "V", "o", "t", "e", "s", " ", "W", "i", "t", "h", "h", "e", "l",
  "d", " ", "-", " ", "3", " ", "D", "i", "r", "e", "c", "t", "o", "r",
  " ", "V", "o", "t", "e", "s", " ", "B", "r", "o", "k", "e", "r", "-",
  "N", "o", "n", "-", "V", "o", "t", "e", "s", ":", " ", "3", ",", "4",
  "0", "0", " ", "i", "n", "d", "i", "v", "i", "d", "u", "a", "l", ":">>

PageTexts ==
  {PageBlank,
   PageScenarioA,
   PageLooseMarker,
   PageZeroFor,
   PageProposals,
   PageScenarioE,
   PageDirectors}

Documents ==
  {[openable |-> FALSE, pages |-> <<>>]} \cup
  {[openable |-> TRUE, pages |-> p] :
     p \in UNION {[1..n -> PageTexts] : n \in 0..MaxPages}}

(***************************************************************************)
(* extract_pdf_text and save_to_excel                                      *)
(***************************************************************************)
S_Newline == <<"\n">>

RECURSIVE JoinPages(_)
\* for page in pdf.pages: if text: all_text += text + "\n"
JoinPages(pages) ==
  IF pages = <<>> THEN S_Empty
  ELSE (IF Head(pages) # S_Empty THEN Head(pages) \o S_Newline ELSE S_Empty)
         \o JoinPages(Tail(pages))

extract_pdf_text_swallowing(file_stream) ==
  [raised |-> FALSE,
   text |-> IF file_stream.openable
              THEN JoinPages(file_stream.pages) ELSE S_Empty]

\* pdfplumber.open raises on a stream that is not a readable PDF, and the
\* exception leaves the function
extract_pdf_text(file_stream) ==
  IF file_stream.openable
    THEN [raised |-> FALSE, text |-> JoinPages(file_stream.pages)]
    ELSE [raised |-> TRUE, text |-> S_Empty]

ProposalColumns ==
  <<"Proposal Proxy Year", "Resolution Outcome", "Proposal Text",
    "Mgmt. Proposal Category", "Vote Results - For",
    "Vote Results - Against", "Vote Results - Abstained",
    "Vote Results - Withheld", "Vote Results - Broker Non-Votes",
    "Proposal Vote Results Total">>

DirectorColumns ==
  <<"Director Election Year", "Individual", "Director Votes For",
    "Director Votes Against", "Director Votes Abstained",
    "Director Votes Withheld", "Director Votes Broker-Non-Votes">>

\* the cell pandas shows for a key the record does not have
NaN == <<"NaN">>

\* pd.DataFrame(records, columns=...).to_excel(writer, sheet_name=...)
Sheet(name, records, columns) ==
  [name |-> name, header |-> columns,
   rows |-> [i \in 1..Len(records) |->
               [c \in 1..Len(columns) |->
                  IF columns[c] \in DOMAIN records[i]
                    THEN records[i][columns[c]] ELSE NaN]]]

save_to_excel(props, dirs) ==
  <<Sheet("Proposal Sheet", props, ProposalColumns),
    Sheet("Non-Proposal Sheet", dirs, DirectorColumns)>>

(***************************************************************************)
(* The script: one again per uploaded file.                                  *)
(***************************************************************************)
NewListKeepsOld(old) == old

\* proposals = [] / directors = [] at the top of a parser
NewList(old) == <<>>

Init ==
  /\ uploaded_file \in Documents
  /\ pc = "upload"
  /\ pdf_text = S_Empty
  /\ proposal_blocks = <<>>
  /\ proposals = <<>>
  /\ director_blocks = <<>>
  /\ directors = <<>>
  /\ ppc = "idle"
  /\ dpc = "idle"
  /\ p_i = 0
  /\ d_i = 0
  /\ notices = <<>>
  /\ excel_data = <<>>
  /\ download = FALSE
  /\ again = FALSE
  /\ prev_proposals = <<>>
  /\ prev_directors = <<>>

\* lines 195-198: st.info, then extract_pdf_text; an exception ends the again
ExtractPdfText ==
  /\ pc = "upload"
  /\ LET r == extract_pdf_text(uploaded_file)
     IN  IF r.raised
           THEN /\ pc' = "fatal"
                /\ notices' = <<"info", "exception">>
                /\ UNCHANGED pdf_text
           ELSE /\ pc' = "parse"
                /\ notices' = <<"info">>
                /\ pdf_text' = r.text
  /\ UNCHANGED <<uploaded_file, proposal_blocks, proposals, director_blocks,
                 directors, ppc, dpc, p_i, d_i, excel_data, download, again,
                 prev_proposals, prev_directors>>

\* line 201: the whole call of parse_proposals
ParseProposalsCall ==
  /\ pc = "parse" /\ ppc = "idle"
  /\ proposal_blocks' = ProposalBlocks(pdf_text)
  /\ proposals' = NewList(proposals) \o parse_proposals(pdf_text)
  /\ p_i' = Len(ProposalBlocks(pdf_text))
  /\ ppc' = "returned"
  /\ UNCHANGED <<uploaded_file, pc, pdf_text, director_blocks, directors,
                 dpc, d_i, notices, excel_data, download, again,
                 prev_proposals, prev_directors>>

\* line 202: the whole call of parse_directors
ParseDirectorsCall ==
  /\ pc = "parse" /\ ppc = "returned" /\ dpc = "idle"
  /\ director_blocks' = DirectorBlocks(pdf_text)
  /\ directors' = NewList(directors) \o parse_directors(pdf_text)
  /\ d_i' = Len(DirectorBlocks(pdf_text))
  /\ dpc' = "returned"
  /\ UNCHANGED <<uploaded_file, pc, pdf_text, proposal_blocks, proposals,
                 ppc, p_i, notices, excel_data, download, again,
                 prev_proposals, prev_directors>>

\* lines 204-218: the warnings, the workbook, the download button
Export ==
  /\ pc = "parse" /\ ppc = "returned" /\ dpc = "returned"
  /\ notices' = notices
        \o (IF proposals = <<>> THEN <<"no_proposals">> ELSE <<>>)
        \o (IF directors = <<>> THEN <<"no_directors">> ELSE <<>>)
        \o <<"success">>
  /\ excel_data' = save_to_excel(proposals, directors)
  /\ download' = TRUE
  /\ pc' = "done"
  /\ UNCHANGED <<uploaded_file, pdf_text, proposal_blocks, proposals,
                 director_blocks, directors, ppc, dpc, p_i, d_i, again,
                 prev_proposals, prev_directors>>

Next ==
  \/ ExtractPdfText
  \/ ParseProposalsCall
  \/ ParseDirectorsCall
  \/ Export

Spec == Init /\ [][Next]_vars

(***************************************************************************)
(* The two parsers as two callers would again them on the same text: in any  *)
(* order, one loop iteration at a time.                                    *)
(***************************************************************************)
\* lines 37-39: proposals = [], the split
ProposalsStart ==
  /\ pc = "parse" /\ ppc = "idle"
  /\ proposals' = NewList(proposals)
  /\ proposal_blocks' = ProposalBlocks(pdf_text)
  /\ p_i' = 0
  /\ ppc' = "loop"
  /\ UNCHANGED <<uploaded_file, pc, pdf_text, director_blocks, directors,
                 dpc, d_i, notices, excel_data, download, again,
                 prev_proposals, prev_directors>>

\* lines 41-94: one iteration, which appends one record
ProposalsBlock ==
  /\ ppc = "loop" /\ p_i < Len(proposal_blocks)
  /\ proposals' = Append(proposals, ProposalRecord(proposal_blocks[p_i + 1]))
  /\ p_i' = p_i + 1
  /\ UNCHANGED <<uploaded_file, pc, pdf_text, proposal_blocks,
                 director_blocks, directors, ppc, dpc, d_i, notices,
                 excel_data, download, again, prev_proposals, prev_directors>>

\* line 95
ProposalsReturn ==
  /\ ppc = "loop" /\ p_i = Len(proposal_blocks)
  /\ ppc' = "returned"
  /\ UNCHANGED <<uploaded_file, pc, pdf_text, proposal_blocks, proposals,
                 director_blocks, directors, dpc, p_i, d_i, notices,
                 excel_data, download, again, prev_proposals, prev_directors>>

\* lines 112-114
DirectorsStart ==
  /\ pc = "parse" /\ dpc = "idle"
  /\ directors' = NewList(directors)
  /\ director_blocks' = DirectorBlocks(pdf_text)
  /\ d_i' = 0
  /\ dpc' = "loop"
  /\ UNCHANGED <<uploaded_file, pc, pdf_text, proposal_blocks, proposals,
                 ppc, p_i, notices, excel_data, download, again,
                 prev_proposals, prev_directors>>

\* lines 116-148
DirectorsBlock ==
  /\ dpc = "loop" /\ d_i < Len(director_blocks)
  /\ directors' = Append(directors, DirectorRecord(director_blocks[d_i + 1]))
  /\ d_i' = d_i + 1
  /\ UNCHANGED <<uploaded_file, pc, pdf_text, proposal_blocks, proposals,
                 director_blocks, ppc, dpc, p_i, notices, excel_data,
                 download, again, prev_proposals, prev_directors>>

\* line 149
DirectorsReturn ==
  /\ dpc = "loop" /\ d_i = Len(director_blocks)
  /\ dpc' = "returned"
  /\ UNCHANGED <<uploaded_file, pc, pdf_text, proposal_blocks, proposals,
                 director_blocks, directors, ppc, p_i, d_i, notices,
                 excel_data, download, again, prev_proposals, prev_directors>>

\* both parsers are called again on the same text; prev_* keep what the
\* calls before returned
RunAgain ==
  /\ pc = "parse" /\ ppc = "returned" /\ dpc = "returned"
  /\ again' = TRUE
  /\ prev_proposals' = proposals
  /\ prev_directors' = directors
  /\ ppc' = "idle"
  /\ dpc' = "idle"
  /\ UNCHANGED <<uploaded_file, pc, pdf_text, proposal_blocks, proposals,
                 director_blocks, directors, p_i, d_i, notices, excel_data,
                 download>>

NextAnyOrder ==
  \/ ExtractPdfText
  \/ ProposalsStart
  \/ ProposalsBlock
  \/ ProposalsReturn
  \/ DirectorsStart
  \/ DirectorsBlock
  \/ DirectorsReturn
  \/ RunAgain

SpecAnyOrder == Init /\ [][NextAnyOrder]_vars

(***************************************************************************)
(* What the claims speak of, stated without the matcher: the places where  *)
(* a marker occurs and the blocks between them.                            *)
(***************************************************************************)
ProposalMarkerWords ==
  <<<<"p", "r", "o", "p", "o", "s", "a", "l">>, <<"p", "r", "o", "x", "y">>,
    <<"y", "e", "a", "r", ":">>>>

DirectorMarkerWords ==
  <<<<"i", "n", "d", "i", "v", "i", "d", "u", "a", "l", ":">>>>

Blank(c) == c \in {" ", "\t", "\n"}

\* w stands at s[i], in any case
WordAt(s, i, w) ==
  /\ i + Len(w) - 1 <= Len(s)
  /\ \A j \in 1..Len(w) : Lower(s[i + j - 1]) = w[j]

\* the first position from i on that holds no blank
SkipBlanks(s, i) ==
  IF \E j \in i..Len(s) : ~Blank(s[j])
    THEN CHOOSE j \in i..Len(s) :
           ~Blank(s[j]) /\ \A h \in i..(j - 1) : Blank(s[h])
    ELSE Len(s) + 1

RECURSIVE MarkerEnd(_, _, _, _)
\* the position after the marker whose words k.. begin at s[i], its words
\* separated by one or more blanks; 0 when no marker stands there
MarkerEnd(words, k, s, i) ==
  IF ~WordAt(s, i, words[k]) THEN 0
  ELSE LET e == i + Len(words[k])
       IN  IF k = Len(words) THEN e
           ELSE IF SkipBlanks(s, e) = e THEN 0
           ELSE MarkerEnd(words, k + 1, s, SkipBlanks(s, e))

MarkerStarts(words, s) == {i \in 1..Len(s) : MarkerEnd(words, 1, s, i) > 0}

RECURSIVE Ascending(_)
Ascending(S) ==
  IF S = {} THEN <<>> ELSE <<Least(S)>> \o Ascending(S \ {Least(S)})

\* block j: the text strictly between occurrence j and occurrence j + 1
\* of the marker, or the end of the text
MarkerBlocks(words, s) ==
  LET st == Ascending(MarkerStarts(words, s))
  IN  [j \in 1..Len(st) |->
         SubSeq(s, MarkerEnd(words, 1, s, st[j]),
                IF j < Len(st) THEN st[j + 1] - 1 ELSE Len(s))]

ProposalKeys ==
  {"Proposal Proxy Year", "Resolution Outcome", "Proposal Text",
   "Mgmt. Proposal Category", "Vote Results - For", "Vote Results - Against",
   "Vote Results - Abstained", "Vote Results - Withheld",
   "Vote Results - Broker Non-Votes", "Proposal Vote Results Total"}

DirectorKeys ==
  {"Director Election Year", "Individual", "Director Votes For",
   "Director Votes Against", "Director Votes Abstained",
   "Director Votes Withheld", "Director Votes Broker-Non-Votes"}

\* the keys whose value comes from a pattern
ProposalPatternKeys ==
  ProposalKeys \ {"Mgmt. Proposal Category", "Proposal Vote Results Total"}

(***************************************************************************)
(* C1: each parser returns exactly one record per occurrence of its        *)
(* marker, the j-th record being the record of the block after the j-th    *)
(* occurrence; a block in which nothing matches still gives a record, and  *)
(* a text without the marker gives the empty sequence.                     *)
(***************************************************************************)
C1_OneRecordPerMarker ==
  /\ ppc = "returned" =>
       LET blocks == MarkerBlocks(ProposalMarkerWords, pdf_text)
       IN  /\ Len(proposals) = Cardinality(MarkerStarts(ProposalMarkerWords, pdf_text))
           /\ \A j \in 1..Len(blocks) : proposals[j] = ProposalRecord(blocks[j])
           /\ MarkerStarts(ProposalMarkerWords, pdf_text) = {} => proposals = <<>>
  /\ dpc = "returned" =>
       LET blocks == MarkerBlocks(DirectorMarkerWords, pdf_text)
       IN  /\ Len(directors) = Cardinality(MarkerStarts(DirectorMarkerWords, pdf_text))
           /\ \A j \in 1..Len(blocks) : directors[j] = DirectorRecord(blocks[j])
           /\ MarkerStarts(DirectorMarkerWords, pdf_text) = {} => directors = <<>>

\* four markers, the last block without any field, and no director marker
C1_Witness ==
  /\ ppc = "returned" /\ dpc = "returned"
  /\ Cardinality(MarkerStarts(ProposalMarkerWords, pdf_text)) = 4
  /\ Len(proposals) = 4
  /\ \A k \in ProposalPatternKeys : proposals[4][k] = S_Empty
  /\ MarkerStarts(DirectorMarkerWords, pdf_text) = {}
  /\ directors = <<>>

C5_BlocksBetweenMarkers ==
  /\ ppc = "returned" =>
       /\ proposal_blocks = MarkerBlocks(ProposalMarkerWords, pdf_text)
       /\ Len(proposals) = Len(proposal_blocks)
       /\ \A j \in 1..Len(proposal_blocks) :
            proposals[j] = ProposalRecord(proposal_blocks[j])
  /\ dpc = "returned" =>
       /\ director_blocks = MarkerBlocks(DirectorMarkerWords, pdf_text)
       /\ Len(directors) = Len(director_blocks)
       /\ \A j \in 1..Len(director_blocks) :
            directors[j] = DirectorRecord(director_blocks[j])

\* a text that begins with other text, whose first proposal marker is in
\* capitals with a double space and a tab, followed by more markers, and
\* that holds a director marker in capitals
C5_Witness ==
  /\ ppc = "returned" /\ dpc = "returned"
  /\ Len(proposal_blocks) >= 2
  /\ Len(director_blocks) >= 1
  /\ LET first == Least(MarkerStarts(ProposalMarkerWords, pdf_text))
     IN  /\ first > 1
         /\ Len(pdf_text) >= first + 9
         /\ SubSeq(pdf_text, first, first + 9) =
              <<"P", "R", "O", "P", "O", "S", "A", "L", " ", " ">>
  /\ \E i \in MarkerStarts(DirectorMarkerWords, pdf_text) :
       pdf_text[i + 1] = "N"

(***************************************************************************)
(* C3: the outcome of a proposal is "Approved (<For> For > <Against>       *)
(* Against)", written with the captured texts and their commas, exactly    *)
(* when For read as a number exceeds Against read as a number (commas      *)
(* dropped, an empty or unreadable text counting 0), and is empty          *)
(* otherwise: on a tie, and for For "0" with Against empty.                *)
(***************************************************************************)
RECURSIVE NumeralValue(_, _)
\* the number the first n digits of d write
NumeralValue(d, n) ==
  IF n = 0 THEN 0 ELSE 10 * NumeralValue(d, n - 1) + DigitValue[d[n]]

\* a captured text as a number: commas dropped, 0 when nothing readable is left
Votes(s) ==
  LET d == SelectSeq(s, LAMBDA c : c # ",")
  IN  IF d # <<>> /\ \A j \in 1..Len(d) : d[j] \in Digits
        THEN NumeralValue(d, Len(d)) ELSE 0

\* C3: the outcome is the Approved text, written with the captured texts,
\* exactly when For exceeds Against as numbers, and is empty otherwise
C3_ResolutionOutcome ==
  \A j \in 1..Len(proposals) :
    LET rawFor     == proposals[j]["Vote Results - For"]
        rawAgainst == proposals[j]["Vote Results - Against"]
    IN  proposals[j]["Resolution Outcome"] =
          IF Votes(rawFor) > Votes(rawAgainst)
            THEN <<"A", "p", "p", "r", "o", "v", "e", "d", " ", "(">> \o rawFor
                   \o <<" ", "F", "o", "r", " ", ">", " ">> \o rawAgainst
                   \o <<" ", "A", "g", "a", "i", "n", "s", "t", ")">>
            ELSE <<>>

\* an approved proposal of 1,000 against 200, a tie of 7 to 7, and a
\* proposal with For "0" and no Against
C3_Witness ==
  /\ ppc = "returned"
  /\ \E j \in 1..Len(proposals) :
       proposals[j]["Resolution Outcome"] =
         <<"A", "p", "p", "r", "o", "v", "e", "d", " ", "(", "1", ",",
           "0", "0", "0", " ", "F", "o", "r", " ", ">", " ", "2", "0",
           "0", " ", "A", "g", "a", "i", "n", "s", "t", ")">>
  /\ \E j \in 1..Len(proposals) :
       /\ proposals[j]["Vote Results - For"] = <<"7">>
       /\ proposals[j]["Vote Results - Against"] = <<"7">>
       /\ proposals[j]["Resolution Outcome"] = <<>>
  /\ \E j \in 1..Len(proposals) :
       /\ proposals[j]["Vote Results - For"] = <<"0">>
       /\ proposals[j]["Vote Results - Against"] = <<>>
       /\ proposals[j]["Resolution Outcome"] = <<>>

(***************************************************************************)
(* C4: in both parsers the Broker Non-Votes field is "0" when the pattern  *)
(* captured "Nil" or "-", the captured text itself (commas kept) when it   *)
(* captured a numeric text, and empty when the label is not in the block.  *)
(***************************************************************************)
Numeric(s) == s # <<>> /\ \A j \in 1..Len(s) : s[j] \in Digits \cup {","}

BrokerFieldOf(field, m, labelFound) ==
  /\ m.ok /\ m.cap \in {<<"N", "i", "l">>, <<"-">>} => field = <<"0">>
  /\ m.ok /\ Numeric(m.cap) => field = m.cap
  /\ ~labelFound => field = <<>>

\* C4: the Broker Non-Votes field of every record of both parsers is "0"
\* for a captured "Nil" or "-", the captured numeric text otherwise, and
\* empty when the block does not hold the label
C4_BrokerNonVotes ==
  /\ \A j \in 1..Len(proposals) :
       BrokerFieldOf(proposals[j]["Vote Results - Broker Non-Votes"],
                     re_search(BrokerPattern, proposal_blocks[j]),
                     re_search(Regex(BrokerLabel, TRUE), proposal_blocks[j]).ok)
  /\ \A j \in 1..Len(directors) :
       BrokerFieldOf(directors[j]["Director Votes Broker-Non-Votes"],
                     re_search(DirectorBrokerPattern, director_blocks[j]),
                     re_search(Regex(DirectorBrokerLabel, TRUE),
                               director_blocks[j]).ok)

\* proposals with "Nil", with "2,000" and without the label, and directors
\* with "-", with "3,400" and without the label
C4_Witness ==
  /\ ppc = "returned" /\ dpc = "returned"
  /\ \E j \in 1..Len(proposals) :
       /\ re_search(BrokerPattern, proposal_blocks[j]).cap = <<"N", "i", "l">>
       /\ proposals[j]["Vote Results - Broker Non-Votes"] = <<"0">>
  /\ \E j \in 1..Len(proposals) :
       proposals[j]["Vote Results - Broker Non-Votes"] =
         <<"2", ",", "0", "0", "0">>
  /\ \E j \in 1..Len(proposals) :
       /\ ~re_search(Regex(BrokerLabel, TRUE), proposal_blocks[j]).ok
       /\ proposals[j]["Vote Results - Broker Non-Votes"] = <<>>
  /\ \E j \in 1..Len(directors) :
       /\ re_search(DirectorBrokerPattern, director_blocks[j]).cap = <<"-">>
       /\ directors[j]["Director Votes Broker-Non-Votes"] = <<"0">>
  /\ \E j \in 1..Len(directors) :
       directors[j]["Director Votes Broker-Non-Votes"] =
         <<"3", ",", "4", "0", "0">>
  /\ \E j \in 1..Len(directors) :
       /\ ~re_search(Regex(DirectorBrokerLabel, TRUE), director_blocks[j]).ok
       /\ directors[j]["Director Votes Broker-Non-Votes"] = <<>>

(***************************************************************************)
(* C6: the proxy year of a proposal.                                       *)
(***************************************************************************)
FourDigitsAt(s, i) ==
  i + 3 <= Len(s) /\ \A k \in 0..3 : s[i + k] \in Digits

\* the first run of 4 digits of s, or the empty text
FirstFourDigits(s) ==
  LET at == {i \in 1..Len(s) : FourDigitsAt(s, i)}
  IN  IF at = {} THEN <<>> ELSE SubSeq(s, Least(at), Least(at) + 3)

\* the 4 digits s begins with, blanks before them skipped, or the empty text
LeadingFourDigits(s) ==
  LET i == SkipBlanks(s, 1)
  IN  IF FourDigitsAt(s, i) THEN SubSeq(s, i, i + 3) ELSE <<>>

\* C6 as claimed: the proxy year is the first run of 4 digits after the
\* marker, and is empty only when the block holds no run of 4 digits
C6_YearIsFirstFourDigitRun ==
  \A j \in 1..Len(proposals) :
    proposals[j]["Proposal Proxy Year"] = FirstFourDigits(proposal_blocks[j])

\* C6 amended: the proxy year is the 4 digits that follow the marker
\* directly or after blanks only, and is empty for every other block, also
\* for one that holds a run of 4 digits further on
C6_YearFollowsMarker ==
  \A j \in 1..Len(proposals) :
    proposals[j]["Proposal Proxy Year"] = LeadingFourDigits(proposal_blocks[j])

\* a block " 2023 ..." with year "2023", and a block " FY 2024 ..." whose
\* year is empty
C6_Witness ==
  /\ ppc = "returned"
  /\ \E j \in 1..Len(proposals) :
       /\ Len(proposal_blocks[j]) >= 5
       /\ SubSeq(proposal_blocks[j], 1, 5) = <<" ", "2", "0", "2", "3">>
       /\ proposals[j]["Proposal Proxy Year"] = <<"2", "0", "2", "3">>
  /\ \E j \in 1..Len(proposals) :
       /\ FirstFourDigits(proposal_blocks[j]) = <<"2", "0", "2", "4">>
       /\ proposals[j]["Proposal Proxy Year"] = <<>>

(***************************************************************************)
(* C9: the name of a director is the rest of the first line after the      *)
(* marker, up to the first newline, without the blanks around it; the text *)
(* of a later line is never the name.                                      *)
(***************************************************************************)
FirstLine(s) ==
  LET nl == {i \in 1..Len(s) : s[i] = "\n"}
  IN  IF nl = {} THEN s ELSE SubSeq(s, 1, Least(nl) - 1)

RECURSIVE Trimmed(_)
Trimmed(s) ==
  IF s = <<>> THEN s
  ELSE IF Blank(s[1]) THEN Trimmed(SubSeq(s, 2, Len(s)))
  ELSE IF Blank(s[Len(s)]) THEN Trimmed(SubSeq(s, 1, Len(s) - 1))
  ELSE s

\* C9: the name of every director is the trimmed rest of the marker's line
C9_NameIsRestOfFirstLine ==
  \A j \in 1..Len(directors) :
    directors[j]["Individual"] = Trimmed(FirstLine(director_blocks[j]))

C7_IndependentParsers ==
  /\ pc = "parse" => pdf_text = JoinPages(uploaded_file.pages)
  /\ again /\ ppc = "returned" => proposals = prev_proposals
  /\ again /\ dpc = "returned" => directors = prev_directors
  /\ dpc = "returned" /\ MarkerStarts(DirectorMarkerWords, pdf_text) = {} =>
       /\ directors = <<>>
       /\ ppc = "returned" => proposals = parse_proposals(pdf_text)

\* in a later run parse_directors has returned before parse_proposals
\* began, on a text that gives records of both kinds
C7_Witness ==
  /\ again
  /\ dpc = "returned" /\ ppc = "idle"
  /\ directors # <<>> /\ directors = prev_directors
  /\ prev_proposals # <<>>

(***************************************************************************)
(* C8: what a run gives for a document without text.                       *)
(***************************************************************************)
\* C8 as claimed: when the stream cannot be opened or has no pages, nothing
\* is exported: no workbook is built and no download is offered
C8_NoOutputWithoutPages ==
  (~uploaded_file.openable \/ uploaded_file.pages = <<>>) =>
    /\ pc # "done"
    /\ excel_data = <<>>
    /\ download = FALSE

\* C8 amended: when the stream cannot be opened the run ends in an error
\* shown to the user, no parser runs, no workbook is built and no download
\* is offered; a document that opens and has no pages is no error: both
\* "nothing found" notices are shown and a workbook of two sheets with
\* their header rows only is built and offered
C8_FatalWhenUnopenable ==
  /\ ~uploaded_file.openable =>
       /\ pc \in {"upload", "fatal"}
       /\ pc = "fatal" => notices = <<"info", "exception">>
       /\ ppc = "idle" /\ dpc = "idle"
       /\ proposals = <<>> /\ directors = <<>>
       /\ excel_data = <<>>
       /\ download = FALSE
  /\ uploaded_file.openable /\ uploaded_file.pages = <<>> /\ pc = "done" =>
       /\ notices = <<"info", "no_proposals", "no_directors", "success">>
       /\ Len(excel_data) = 2
       /\ excel_data[1].header = ProposalColumns /\ excel_data[1].rows = <<>>
       /\ excel_data[2].header = DirectorColumns /\ excel_data[2].rows = <<>>
       /\ download = TRUE

\* the run of a stream that cannot be opened has ended in the error
C8_Witness ==
  /\ ~uploaded_file.openable
  /\ pc = "fatal"
  /\ notices = <<"info", "exception">>

====
